---- MODULE Spec2Model ----
(***************************************************************************)
(* Model of the weight-annealing routines of models/losses.py (class Loss). *)
(*                                                                         *)
(* Numbers: Python floats are modelled as exact rationals <<num, den>> in  *)
(* lowest terms with den > 0, so the arithmetic below is the real-valued   *)
(* arithmetic of the source's expressions; binary rounding is not          *)
(* modelled.                                                               *)
(***************************************************************************)
EXTENDS Integers, Sequences, FiniteSets, TLC

VARIABLES
    weights,              \* self.weights: 0..7 -> rational
    loss_type,            \* self.loss_type
    heat_lambda,          \* self.heat_lambda
    div_decay,            \* self.div_decay
    heat_decay,           \* self.heat_decay
    eikonal_decay,        \* self.eikonal_decay
    heat_lambda_decay,    \* self.heat_lambda_decay
    boundary_coef_decay,  \* self.boundary_coef_decay
    attrs,                \* the lazily created *_params_list attributes: name -> list
    last,                 \* the most recent call: its arguments and how it ended
    calls                 \* number of calls made so far

config == <<loss_type, div_decay, heat_decay, eikonal_decay, heat_lambda_decay, boundary_coef_decay>>
vars == <<weights, heat_lambda, config, attrs, last, calls>>

----------------------------------------------------------------------------
(* Bounds *)

\* n_iterations of the bounded queries; current_iteration ranges over 0..MaxIter+1
MaxIter == 4
\* number of update calls in one behaviour
MaxCalls == 2

----------------------------------------------------------------------------
(* Rational arithmetic: the float operators of the source *)

Abs(x) == IF x < 0 THEN -x ELSE x

RECURSIVE GCD(_, _)
GCD(a, b) == IF b = 0 THEN a ELSE GCD(b, a % b)

\* the number n/d in lowest terms, d # 0
Rat(n, d) ==
    LET g == GCD(Abs(n), Abs(d))
        sg == IF d < 0 THEN -1 ELSE 1
    IN  <<(sg * n) \div g, (sg * d) \div g>>

Num(k) == <<k, 1>>

Add(a, b) == Rat(a[1] * b[2] + b[1] * a[2], a[2] * b[2])
Sub(a, b) == Rat(a[1] * b[2] - b[1] * a[2], a[2] * b[2])
Mul(a, b) == Rat(a[1] * b[1], a[2] * b[2])
\* a / b; b # 0 (the caller decides what a zero divisor does)
Div(a, b) == Rat(a[1] * b[2], a[2] * b[1])
Pow(a, k) == <<a[1] ^ k, a[2] ^ k>>
Lt(a, b) == a[1] * b[2] < b[1] * a[2]
Le(a, b) == a[1] * b[2] <= b[1] * a[2]
Ge(a, b) == Le(b, a)


----------------------------------------------------------------------------
(* Python sequence helpers used by the schedule construction *)

\* the params argument: None, or a sequence of numbers
NoneParams == [isNone |-> TRUE, items |-> <<>>]
Params(items) == [isNone |-> FALSE, items |-> items]

Min2(a, b) == IF a <= b THEN a ELSE b

\* Middle keeping the last element: params[1:]
MiddleToEnd(items) == SubSeq(items, 2, Len(items))

\* params[1:-1]
Middle(items) == SubSeq(items, 2, Len(items) - 1)

\* seq[start-1::2] in Python terms: every other element from position start (1-based)
EveryOther(seq, start) ==
    [i \in 1..((Len(seq) - start + 2) \div 2) |-> seq[start + 2 * (i - 1)]]

\* list(zip(a, b)): pairs up to the shorter argument
Zip(a, b) == [i \in 1..Min2(Len(a), Len(b)) |-> <<a[i], b[i]>>]

\* BuildList reading each middle pair as (value, fraction)
BuildListSwapped(items) ==
    Zip(<<items[1]>> \o EveryOther(Middle(items), 1) \o <<items[Len(items)]>>,
        <<Num(0)>> \o EveryOther(Middle(items), 2) \o <<Num(1)>>)

\* BuildList without the closing fraction 1: zip drops the end control point
BuildListUnpinned(items) ==
    Zip(<<items[1]>> \o EveryOther(Middle(items), 2) \o <<items[Len(items)]>>,
        <<Num(0)>> \o EveryOther(Middle(items), 1))

\* the control points (value, fraction) built from a flat params list
BuildList(items) ==
    Zip(<<items[1]>> \o EveryOther(Middle(items), 2) \o <<items[Len(items)]>>,
        <<Num(0)>> \o EveryOther(Middle(items), 1) \o <<Num(1)>>)

\* Validate without the parity assert
ValidateLengthOnly(params) ==
    IF params.isNone THEN "TypeError"
    ELSE IF ~(Len(params.items) >= 2) THEN "AssertionError"
    ELSE "ok"

\* how the two asserts (and len() itself) end for a params argument
Validate(params) ==
    IF params.isNone THEN "TypeError"
    ELSE IF ~(Len(params.items) >= 2) THEN "AssertionError"
    ELSE IF ~(Len(Middle(params.items)) % 2 = 0) THEN "AssertionError"
    ELSE "ok"

----------------------------------------------------------------------------
(* The bracket search *)

\* UpperCandidates falling back to the whole list when nothing lies at or above curr
UpperCandidatesClamped(list, curr) ==
    IF SelectSeq(list, LAMBDA tup : Ge(tup[2], curr)) = <<>>
    THEN list
    ELSE SelectSeq(list, LAMBDA tup : Ge(tup[2], curr))

\* UpperCandidates with a strict comparison
UpperCandidatesStrict(list, curr) == SelectSeq(list, LAMBDA tup : Lt(curr, tup[2]))

\* [tup for tup in list if tup[1] >= curr]
UpperCandidates(list, curr) == SelectSeq(list, LAMBDA tup : Ge(tup[2], curr))
\* [tup for tup in list if tup[1] <= curr]
LowerCandidates(list, curr) == SelectSeq(list, LAMBDA tup : Le(tup[2], curr))

\* PyMin resolving ties to the last element with the smallest fraction
PyMinLast(seq) ==
    LET least(i) == \A j \in 1..Len(seq) : Le(seq[i][2], seq[j][2])
    IN  seq[CHOOSE i \in 1..Len(seq) : least(i) /\ \A j \in (i + 1)..Len(seq) : ~least(j)]

\* min(seq, key=lambda tup: tup[1]): the first element with the smallest fraction
PyMin(seq) ==
    LET least(i) == \A j \in 1..Len(seq) : Le(seq[i][2], seq[j][2])
    IN  seq[CHOOSE i \in 1..Len(seq) : least(i) /\ \A j \in 1..(i - 1) : ~least(j)]

\* max(seq, key=lambda tup: tup[1]): the first element with the largest fraction
PyMax(seq) ==
    LET most(i) == \A j \in 1..Len(seq) : Ge(seq[i][2], seq[j][2])
    IN  seq[CHOOSE i \in 1..Len(seq) : most(i) /\ \A j \in 1..(i - 1) : ~most(j)]

----------------------------------------------------------------------------
(* The annealing kernels: the value assigned to the governed scalar *)

\* Linear measuring progress from 0 instead of from s
LinearNoOffset(w0, s, we, e, ci, n) ==
    IF Lt(Num(ci), Mul(s, Num(n))) THEN w0
    ELSE IF Ge(Num(ci), Mul(s, Num(n))) /\ Lt(Num(ci), Mul(e, Num(n)))
         THEN Add(w0, Div(Mul(Sub(we, w0), Rat(ci, n)), Sub(e, s)))
    ELSE we

Linear(w0, s, we, e, ci, n) ==
    IF Lt(Num(ci), Mul(s, Num(n))) THEN w0
    ELSE IF Ge(Num(ci), Mul(s, Num(n))) /\ Lt(Num(ci), Mul(e, Num(n)))
         THEN Add(w0, Div(Mul(Sub(we, w0), Sub(Rat(ci, n), s)), Sub(e, s)))
    ELSE we

\* Quintic without the outer complement: (1 - t)^5 in place of 1 - (1 - t)^5
QuinticNoComplement(w0, s, we, e, ci, n) ==
    IF Lt(Num(ci), Mul(s, Num(n))) THEN w0
    ELSE IF Ge(Num(ci), Mul(s, Num(n))) /\ Lt(Num(ci), Mul(e, Num(n)))
         THEN Add(w0, Mul(Sub(we, w0),
                 Pow(Sub(Num(1), Div(Sub(Rat(ci, n), s), Sub(e, s))), 5)))
    ELSE we

Quintic(w0, s, we, e, ci, n) ==
    IF Lt(Num(ci), Mul(s, Num(n))) THEN w0
    ELSE IF Ge(Num(ci), Mul(s, Num(n))) /\ Lt(Num(ci), Mul(e, Num(n)))
         THEN Add(w0, Mul(Sub(we, w0),
                 Sub(Num(1), Pow(Sub(Num(1), Div(Sub(Rat(ci, n), s), Sub(e, s))), 5))))
    ELSE we

\* Step answering with the lower control point
StepLower(w0, s, we, e, ci, n) == w0

Step(w0, s, we, e, ci, n) ==
    IF Lt(Num(ci), Mul(s, Num(n))) THEN w0 ELSE we


\* the elif of the linear and quintic kernels: the branch that divides by (e - s)
\* the "none" kernel falling through to the assignment of the step kernel
NoneKernelAsStep(scalar, w0, s, we, e, ci, n) == Step(w0, s, we, e, ci, n)

\* "none": pass, the governed scalar keeps its value
NoneKernel(scalar, w0, s, we, e, ci, n) == scalar

\* Between closed at its upper end: current_iteration <= e * n_iterations
BetweenInclusive(s, e, ci, n) ==
    /\ ~Lt(Num(ci), Mul(s, Num(n)))
    /\ Le(Num(ci), Mul(e, Num(n)))

Between(s, e, ci, n) ==
    Ge(Num(ci), Mul(s, Num(n))) /\ Lt(Num(ci), Mul(e, Num(n)))

----------------------------------------------------------------------------
(* One call of an update routine, as a function of the state it reads:      *)
(* attr is the routine's cache attribute, decay its kernel, scalar the      *)
(* current value of the scalar it governs.  The result is how the call      *)
(* ends, the attributes after it and the governed scalar after it.          *)

\* HasAttr testing a name no routine ever assigns
HasAttrMisspelt(attr) == "params_list" \in DOMAIN attrs

\* hasattr(self, attr)
HasAttr(attr) == attr \in DOMAIN attrs

\* self.<attr> = list, as the attributes after the assignment
SetAttr(attr, list) ==
    [a \in DOMAIN attrs \cup {attr} |-> IF a = attr THEN list ELSE attrs[a]]

Run(attr, decay, scalar, ci, n, params) ==
    LET has == HasAttr(attr)
        checked == IF has THEN "ok" ELSE Validate(params)
        Ends(outcome, attrs2, bracket, value) ==
            [outcome |-> outcome, attrs |-> attrs2, bracket |-> bracket, value |-> value]
    IN  IF checked # "ok"
        THEN Ends(checked, attrs, <<>>, scalar)
        ELSE
        LET attrs2 == IF has THEN attrs ELSE SetAttr(attr, BuildList(params.items))
            list == attrs2[attr]
            curr == Rat(ci, n)
            up == UpperCandidates(list, curr)
            lo == LowerCandidates(list, curr)
        IN  IF Len(up) = 0 \/ Len(lo) = 0
            THEN Ends("ValueError", attrs2, <<>>, scalar)
            ELSE
            LET we == PyMin(up)[1]
                e == PyMin(up)[2]
                w0 == PyMax(lo)[1]
                s == PyMax(lo)[2]
                bracket == <<w0, s, we, e>>
                divides == ~Lt(Num(ci), Mul(s, Num(n))) /\ Between(s, e, ci, n)
            IN  CASE decay = "linear" ->
                     IF divides /\ Sub(e, s) = Num(0)
                     THEN Ends("ZeroDivisionError", attrs2, bracket, scalar)
                     ELSE Ends("ok", attrs2, bracket, Linear(w0, s, we, e, ci, n))
                  [] decay = "quintic" ->
                     IF divides /\ Sub(e, s) = Num(0)
                     THEN Ends("ZeroDivisionError", attrs2, bracket, scalar)
                     ELSE Ends("ok", attrs2, bracket, Quintic(w0, s, we, e, ci, n))
                  [] decay = "step" ->
                     Ends("ok", attrs2, bracket, Step(w0, s, we, e, ci, n))
                  [] decay = "none" ->
                     Ends("ok", attrs2, bracket, NoneKernel(scalar, w0, s, we, e, ci, n))
                  [] OTHER ->
                     Ends("Warning", attrs2, bracket, scalar)

\* the record of a call kept in `last`: its arguments, whether it found the cache
\* attribute missing, the bracket (w0, s, we, e) it selected (<<>> when it did not
\* get that far) and how it ended
Called(routine, attr, ci, n, params, r) ==
    [routine |-> routine, current_iteration |-> ci, n_iterations |-> n,
     params |-> params, first |-> ~HasAttr(attr),
     bracket |-> r.bracket, outcome |-> r.outcome]

----------------------------------------------------------------------------
(* The five update routines *)

update_div_weight(ci, n, params) ==
    LET r == Run("decay_params_list", div_decay, weights[4], ci, n, params)
    IN  /\ attrs' = r.attrs
        /\ weights' = [weights EXCEPT ![4] = r.value]
        /\ last' = Called("update_div_weight", "decay_params_list", ci, n, params, r)
        /\ calls' = calls + 1
        /\ UNCHANGED <<heat_lambda, config>>

\* update_heat_weight caching its control points under update_div_weight's attribute
update_heat_weight_DivCache(ci, n, params) ==
    LET r == Run("decay_params_list", heat_decay, weights[6], ci, n, params)
    IN  /\ attrs' = r.attrs
        /\ weights' = [weights EXCEPT ![6] = r.value]
        /\ last' = Called("update_heat_weight", "decay_params_list", ci, n, params, r)
        /\ calls' = calls + 1
        /\ UNCHANGED <<heat_lambda, config>>

update_heat_weight(ci, n, params) ==
    LET r == Run("heat_decay_params_list", heat_decay, weights[6], ci, n, params)
    IN  /\ attrs' = r.attrs
        /\ weights' = [weights EXCEPT ![6] = r.value]
        /\ last' = Called("update_heat_weight", "heat_decay_params_list", ci, n, params, r)
        /\ calls' = calls + 1
        /\ UNCHANGED <<heat_lambda, config>>

update_eikonal_weight(ci, n, params) ==
    LET r == Run("eikonal_decay_params_list", eikonal_decay, weights[3], ci, n, params)
    IN  /\ attrs' = r.attrs
        /\ weights' = [weights EXCEPT ![3] = r.value]
        /\ last' = Called("update_eikonal_weight", "eikonal_decay_params_list", ci, n, params, r)
        /\ calls' = calls + 1
        /\ UNCHANGED <<heat_lambda, config>>

update_heat_lambda(ci, n, params) ==
    LET r == Run("heat_lambda_decay_params_list", heat_lambda_decay, heat_lambda, ci, n, params)
    IN  /\ attrs' = r.attrs
        /\ heat_lambda' = r.value
        /\ last' = Called("update_heat_lambda", "heat_lambda_decay_params_list", ci, n, params, r)
        /\ calls' = calls + 1
        /\ UNCHANGED <<weights, config>>

update_boundary_coef(ci, n, params) ==
    LET r == Run("boundary_coef_decay_params_list", boundary_coef_decay, weights[0], ci, n, params)
    IN  /\ attrs' = r.attrs
        /\ weights' = [weights EXCEPT ![0] = r.value]
        /\ last' = Called("update_boundary_coef", "boundary_coef_decay_params_list", ci, n, params, r)
        /\ calls' = calls + 1
        /\ UNCHANGED <<heat_lambda, config>>

----------------------------------------------------------------------------
(* Loss aggregation.  The tensors forward computes with are not part of the *)
(* configuration and are left out: the model keeps what a call of forward   *)
(* does to the configuration and how its dispatch on loss_type ends.        *)

\* the presets forward recognises
LossTypes ==
    {"siren", "siren_wo_n", "igr", "igr_wo_n", "siren_w_div", "siren_wo_n_w_div",
     "igr_wo_eik_w_heat", "igr_w_heat", "sal", "phase",
     "everything_including_div_heat_sal"}

\* forward also dropping the weight of the eikonal term its preset leaves out
ForwardWeightsDropEikonal(type, w) ==
    CASE type = "siren_wo_n" -> [w EXCEPT ![2] = Num(0)]
      [] type = "igr" -> [w EXCEPT ![1] = Num(0)]
      [] type = "igr_wo_n" -> [w EXCEPT ![1] = Num(0), ![2] = Num(0)]
      [] type = "igr_wo_eik_w_heat" -> [w EXCEPT ![3] = Num(0)]
      [] OTHER -> w

\* self.weights after the dispatch on self.loss_type
ForwardWeights(type, w) ==
    CASE type = "siren" -> w
      [] type = "siren_wo_n" -> [w EXCEPT ![2] = Num(0)]
      [] type = "igr" -> [w EXCEPT ![1] = Num(0)]
      [] type = "igr_wo_n" -> [w EXCEPT ![1] = Num(0), ![2] = Num(0)]
      [] type = "siren_w_div" -> w
      [] type = "siren_wo_n_w_div" -> w
      [] type = "igr_wo_eik_w_heat" -> w
      [] type = "igr_w_heat" -> w
      [] type = "sal" -> w
      [] type = "phase" -> w
      [] type = "everything_including_div_heat_sal" -> w
      [] OTHER -> w

\* the record of a forward call kept in `last`
Forwarded(outcome) ==
    [routine |-> "forward", current_iteration |-> 0, n_iterations |-> 1,
     params |-> NoneParams, first |-> FALSE, bracket |-> <<>>, outcome |-> outcome]

forward ==
    /\ weights' = ForwardWeights(loss_type, weights)
    /\ last' = Forwarded(IF loss_type \in LossTypes THEN "ok" ELSE "Warning")
    /\ calls' = calls + 1
    /\ UNCHANGED <<heat_lambda, config, attrs>>

----------------------------------------------------------------------------
(* What each routine reads and writes *)

Routines ==
    {"update_div_weight", "update_heat_weight", "update_eikonal_weight",
     "update_heat_lambda", "update_boundary_coef"}

\* the attribute that caches the routine's control points
AttrOf(routine) ==
    CASE routine = "update_div_weight" -> "decay_params_list"
      [] routine = "update_heat_weight" -> "heat_decay_params_list"
      [] routine = "update_eikonal_weight" -> "eikonal_decay_params_list"
      [] routine = "update_heat_lambda" -> "heat_lambda_decay_params_list"
      [] routine = "update_boundary_coef" -> "boundary_coef_decay_params_list"

\* the kernel the routine dispatches on
DecayOf(routine) ==
    CASE routine = "update_div_weight" -> div_decay
      [] routine = "update_heat_weight" -> heat_decay
      [] routine = "update_eikonal_weight" -> eikonal_decay
      [] routine = "update_heat_lambda" -> heat_lambda_decay
      [] routine = "update_boundary_coef" -> boundary_coef_decay

\* the scalar the routine assigns
Governed(routine) ==
    CASE routine = "update_div_weight" -> weights[4]
      [] routine = "update_heat_weight" -> weights[6]
      [] routine = "update_eikonal_weight" -> weights[3]
      [] routine = "update_heat_lambda" -> heat_lambda
      [] routine = "update_boundary_coef" -> weights[0]

----------------------------------------------------------------------------
(* Inputs *)

\* the example of the routines' comment: weight 100 until 0.5, down to 0 at 0.75
PaperParams == Params(<<Num(100), Rat(1, 2), Num(100), Rat(3, 4), Num(0), Num(0)>>)
\* one middle pair
FourParams == Params(<<Num(1), Rat(1, 2), Num(2), Num(3)>>)
\* no middle pair
TwoParams == Params(<<Num(100), Num(0)>>)
\* two middle pairs at the same fraction
SharedParams == Params(<<Num(0), Rat(1, 2), Num(10), Rat(1, 2), Num(20), Num(40)>>)
\* a middle pair whose fraction lies beyond the end of training
BeyondParams == Params(<<Num(100), Rat(3, 2), Num(50), Num(0)>>)
\* malformed: one element, an odd middle
OneParams == Params(<<Num(5)>>)
OddParams == Params(<<Num(1), Rat(1, 2), Num(3)>>)

ParamsChoices ==
    {NoneParams, OneParams, OddParams,
     TwoParams, FourParams, PaperParams, SharedParams, BeyondParams}

\* (current_iteration, n_iterations)
Queries == {<<ci, MaxIter>> : ci \in 0..(MaxIter + 1)} \cup {<<6000, 10000>>}

\* the kernels the constructor is given
DecayChoices == {"linear", "quintic", "step", "none"}

NoCall ==
    [routine |-> "", current_iteration |-> 0, n_iterations |-> 1,
     params |-> NoneParams, first |-> FALSE, bracket |-> <<>>, outcome |-> ""]

\* the inputs of the training step: fewer arguments and kernels, and every
\* loss type (one of them outside the presets)
TrainParams == {NoneParams, OneParams, PaperParams, BeyondParams}
TrainQueries == {<<1, MaxIter>>, <<MaxIter + 1, MaxIter>>}
TrainDecays == {"linear", "none"}
TrainLossTypes == LossTypes \cup {"unrecognized"}

----------------------------------------------------------------------------
(* Specification *)

\* the object after __init__(weights, loss_type, <kernel>_decay = decay for all five)
Constructed(type, decay) ==
    /\ weights = [i \in 0..7 |-> Num(7)]
    /\ loss_type = type
    /\ heat_lambda = Num(100)
    /\ div_decay = decay
    /\ heat_decay = decay
    /\ eikonal_decay = decay
    /\ heat_lambda_decay = decay
    /\ boundary_coef_decay = decay
    /\ attrs = <<>>
    /\ last = NoCall
    /\ calls = 0

\* The schedules of one routine: no update routine reads loss_type, so one
\* preset stands for all, and all calls of a behaviour go to the same routine.
Init == \E d \in DecayChoices : Constructed("igr_w_heat", d)

\* the caller of Spec: at most MaxCalls calls, all to the same routine
Callable(routine) ==
    /\ calls < MaxCalls
    /\ calls = 0 \/ last.routine = routine

Next ==
    \E q \in Queries, params \in ParamsChoices :
        \/ Callable("update_div_weight") /\ update_div_weight(q[1], q[2], params)
        \/ Callable("update_heat_weight") /\ update_heat_weight(q[1], q[2], params)
        \/ Callable("update_eikonal_weight") /\ update_eikonal_weight(q[1], q[2], params)
        \/ Callable("update_heat_lambda") /\ update_heat_lambda(q[1], q[2], params)
        \/ Callable("update_boundary_coef") /\ update_boundary_coef(q[1], q[2], params)

Spec == Init /\ [][Next]_vars

\* The training loop: the five update routines and forward, in any order.
TrainInit == \E type \in TrainLossTypes, d \in TrainDecays : Constructed(type, d)

\* the training loop makes at most MaxCalls calls
Stepping == calls < MaxCalls

TrainNext ==
    \/ \E q \in TrainQueries, params \in TrainParams :
          \/ Stepping /\ update_div_weight(q[1], q[2], params)
          \/ Stepping /\ update_heat_weight(q[1], q[2], params)
          \/ Stepping /\ update_eikonal_weight(q[1], q[2], params)
          \/ Stepping /\ update_heat_lambda(q[1], q[2], params)
          \/ Stepping /\ update_boundary_coef(q[1], q[2], params)
    \/ Stepping /\ forward

TrainSpec == TrainInit /\ [][TrainNext]_vars


----------------------------------------------------------------------------
(* Properties.  `last` describes the call that led to the current state.    *)

Progress == Rat(last.current_iteration, last.n_iterations)

\* the last call got as far as the bracket search of an existing schedule
Queried == last.routine \in Routines /\ AttrOf(last.routine) \in DOMAIN attrs

\* the control points [(100,0), (100,0.5), (0,0.75), (0,1)]
PaperSchedule ==
    << <<Num(100), Num(0)>>, <<Num(100), Rat(1, 2)>>,
       <<Num(0), Rat(3, 4)>>, <<Num(0), Num(1)>> >>

\* C1: a first call with an accepted params list (start, [fraction, value]*, end)
\* caches exactly [(start, 0), (value_1, fraction_1), ..., (end, 1)]; for
\* (100, 0.5, 100, 0.75, 0, 0) that is [(100,0), (100,0.5), (0,0.75), (0,1)].
C1_ControlPoints ==
    (last.routine \in Routines /\ last.first /\ ~last.params.isNone
        /\ Len(last.params.items) >= 2 /\ (Len(last.params.items) - 2) % 2 = 0)
    =>  /\ AttrOf(last.routine) \in DOMAIN attrs
        /\ LET items == last.params.items
               k == (Len(items) - 2) \div 2
               list == attrs[AttrOf(last.routine)]
           IN  /\ Len(list) = k + 2
               /\ list[1] = <<items[1], Num(0)>>
               /\ \A j \in 1..k : list[j + 1] = <<items[2 * j + 1], items[2 * j]>>
               /\ list[k + 2] = <<items[Len(items)], Num(1)>>
               /\ last.params = PaperParams => list = PaperSchedule

C1_Witness ==
    /\ last.routine \in Routines /\ last.first /\ last.params = PaperParams
    /\ AttrOf(last.routine) \in DOMAIN attrs
    /\ Len(attrs[AttrOf(last.routine)]) = 4

\* C2: once a routine's control points are cached, every later call of it, whatever
\* its params, keeps the cached list, validates nothing, takes its bracket from the
\* cached list, and ends and assigns exactly as the same call with params=None.
C2_Memoized ==
    [][\A r \in Routines :
          AttrOf(r) \in DOMAIN attrs =>
            /\ AttrOf(r) \in DOMAIN attrs'
            /\ attrs'[AttrOf(r)] = attrs[AttrOf(r)]
            /\ last'.routine = r =>
                 /\ ~last'.first
                 /\ last'.outcome \notin {"AssertionError", "TypeError"}
                 /\ Len(last'.bracket) = 4 =>
                      \E i, j \in 1..Len(attrs[AttrOf(r)]) :
                          /\ attrs[AttrOf(r)][i] = <<last'.bracket[1], last'.bracket[2]>>
                          /\ attrs[AttrOf(r)][j] = <<last'.bracket[3], last'.bracket[4]>>
                 /\ LET alt == Run(AttrOf(r), DecayOf(r), Governed(r),
                                    last'.current_iteration, last'.n_iterations, NoneParams)
                    IN  /\ alt.outcome = last'.outcome
                        /\ alt.bracket = last'.bracket
                        /\ alt.value = Governed(r)'
      ]_vars

C2_Witness ==
    /\ Queried /\ ~last.first /\ last.params = NoneParams /\ last.outcome = "ok"
    /\ attrs[AttrOf(last.routine)][2] = <<Num(100), Rat(1, 2)>>
    /\ Governed(last.routine) = Num(60)

\* C3: a query with 0 <= current_iteration <= n_iterations of a constructed schedule
\* never fails on an empty selection; it selects control points (w0, s) and (we, e)
\* with s <= progress <= e, s the largest fraction <= progress and e the smallest
\* fraction >= progress.
C3_Bracketed ==
    (Queried /\ 0 <= last.current_iteration
        /\ last.current_iteration <= last.n_iterations)
    =>  LET list == attrs[AttrOf(last.routine)]
            b == last.bracket
        IN  /\ last.outcome # "ValueError"
            /\ Len(b) = 4
            /\ \E i \in 1..Len(list) : list[i] = <<b[1], b[2]>>
            /\ \E i \in 1..Len(list) : list[i] = <<b[3], b[4]>>
            /\ Le(b[2], Progress) /\ Le(Progress, b[4])
            /\ \A i \in 1..Len(list) : Le(list[i][2], Progress) => Le(list[i][2], b[2])
            /\ \A i \in 1..Len(list) : Le(Progress, list[i][2]) => Le(b[4], list[i][2])

C3_Witness ==
    /\ Queried /\ Len(last.bracket) = 4
    /\ Len(attrs[AttrOf(last.routine)]) = 4
    /\ Lt(last.bracket[2], Progress) /\ Lt(Progress, last.bracket[4])
    /\ Lt(Num(0), last.bracket[2]) /\ Lt(last.bracket[4], Num(1))


\* the first control point of list whose fraction is f
FirstAt(list, f) ==
    list[CHOOSE i \in 1..Len(list) :
            list[i][2] = f /\ \A j \in 1..(i - 1) : list[j][2] # f]

\* a schedule as the data model describes it: fractions from 0 to 1, never decreasing
WellFormed(list) ==
    /\ list[1][2] = Num(0)
    /\ list[Len(list)][2] = Num(1)
    /\ \A i \in 1..(Len(list) - 1) : Le(list[i][2], list[i + 1][2])

\* C4 as stated: whenever the progress of a query of a well-formed schedule equals
\* the fraction of a control point, the governed scalar afterwards is that control
\* point's value, under every kernel (linear, quintic, step, none).
C4_AsStated ==
    (Queried /\ last.outcome = "ok" /\ WellFormed(attrs[AttrOf(last.routine)]))
    =>  \A i \in 1..Len(attrs[AttrOf(last.routine)]) :
            attrs[AttrOf(last.routine)][i][2] = Progress
            => Governed(last.routine) = attrs[AttrOf(last.routine)][i][1]

\* C4, amended: under the linear, quintic and step kernels a query whose progress
\* equals a control point's fraction sets the governed scalar to the value of the
\* first control point of the list with that fraction; under the none kernel the
\* call leaves the governed scalar as it was.
C4_AtControlPoint ==
    [][\A r \in Routines :
          (last'.routine = r /\ AttrOf(r) \in DOMAIN attrs' /\ last'.outcome = "ok")
          =>  LET list == attrs'[AttrOf(r)]
                  p == Rat(last'.current_iteration, last'.n_iterations)
              IN  /\ (DecayOf(r) \in {"linear", "quintic", "step"}
                        /\ \E i \in 1..Len(list) : list[i][2] = p)
                     => Governed(r)' = FirstAt(list, p)[1]
                  /\ DecayOf(r) = "none" => Governed(r)' = Governed(r)
      ]_vars

\* a query at a fraction two control points share, answered with the first one's value
C4_Witness ==
    /\ Queried /\ last.outcome = "ok" /\ Progress = Rat(1, 2)
    /\ DecayOf(last.routine) = "quintic"
    /\ attrs[AttrOf(last.routine)][2] = <<Num(10), Rat(1, 2)>>
    /\ attrs[AttrOf(last.routine)][3] = <<Num(20), Rat(1, 2)>>
    /\ Governed(last.routine) = Num(10)


Neighbours(list, i, k) ==
    /\ Lt(list[i][2], list[k][2])
    /\ list[i] = FirstAt(list, list[i][2])
    /\ list[k] = FirstAt(list, list[k][2])
    /\ \A j \in 1..Len(list) : ~(Lt(list[i][2], list[j][2]) /\ Lt(list[j][2], list[k][2]))

\* C6 as stated: under the step kernel, for consecutive control points (w0, s) and
\* (we, e) with s < e of a well-formed schedule, a query leaves we for every progress
\* with s <= progress <= e, progress = s included.
C6_AsStated ==
    (Queried /\ last.outcome = "ok" /\ DecayOf(last.routine) = "step"
        /\ WellFormed(attrs[AttrOf(last.routine)]))
    =>  LET list == attrs[AttrOf(last.routine)]
        IN  \A i \in 1..(Len(list) - 1) :
                (Lt(list[i][2], list[i + 1][2])
                    /\ Le(list[i][2], Progress) /\ Le(Progress, list[i + 1][2]))
                => Governed(last.routine) = list[i + 1][1]

\* C6, amended: under the step kernel, for control points (w0, s) and (we, e) that
\* are neighbours in fraction order, a query leaves we for every progress with
\* s < progress <= e, and at progress = s the value w0 of the control point at s;
\* the schedule of (100, 0.5, 100, 0.75, 0, 0) queried at progress 0.6 yields 0.
C6_Step ==
    (Queried /\ last.outcome = "ok" /\ DecayOf(last.routine) = "step")
    =>  LET list == attrs[AttrOf(last.routine)]
        IN  /\ \A i, k \in 1..Len(list) :
                   Neighbours(list, i, k) =>
                     /\ (Lt(list[i][2], Progress) /\ Le(Progress, list[k][2]))
                          => Governed(last.routine) = list[k][1]
                     /\ Progress = list[i][2]
                          => Governed(last.routine) = list[i][1]
            /\ (list = PaperSchedule /\ Progress = Rat(3, 5))
                 => Governed(last.routine) = Num(0)

\* the step schedule (100, 0) -> (0, 1) queried at progress 0 answers 100, not 0
C6_Witness ==
    /\ Queried /\ last.outcome = "ok" /\ DecayOf(last.routine) = "step"
    /\ attrs[AttrOf(last.routine)] = << <<Num(100), Num(0)>>, <<Num(0), Num(1)>> >>
    /\ Progress = Num(0)
    /\ Governed(last.routine) = Num(100)

RatAbs(x) == <<Abs(x[1]), x[2]>>

\* C7: under the quintic kernel, for control points (w0, s) and (we, e) that are
\* neighbours in fraction order, a query at progress p in [s, e) leaves
\* w0 + (we - w0)(1 - (1 - (p - s)/(e - s))^5), which is w0 at p = s; and of two
\* successive queries at p1 < p2 in [s, e) the later leaves a value no farther from we.
C7_Quintic ==
    [][\A r \in Routines :
          (last'.routine = r /\ AttrOf(r) \in DOMAIN attrs' /\ last'.outcome = "ok"
              /\ DecayOf(r) = "quintic")
          =>  LET list == attrs'[AttrOf(r)]
                  p2 == Rat(last'.current_iteration, last'.n_iterations)
                  p1 == Rat(last.current_iteration, last.n_iterations)
              IN  \A i, k \in 1..Len(list) :
                      (Neighbours(list, i, k) /\ Le(list[i][2], p2) /\ Lt(p2, list[k][2]))
                      =>  LET w0 == list[i][1]
                              s == list[i][2]
                              we == list[k][1]
                              e == list[k][2]
                              t == Div(Sub(p2, s), Sub(e, s))
                          IN  /\ Governed(r)'
                                   = Add(w0, Mul(Sub(we, w0),
                                         Sub(Num(1), Pow(Sub(Num(1), t), 5))))
                              /\ p2 = s => Governed(r)' = w0
                              /\ (last.routine = r /\ last.outcome = "ok"
                                    /\ Le(s, p1) /\ Lt(p1, p2))
                                 => Le(RatAbs(Sub(we, Governed(r)')),
                                       RatAbs(Sub(we, Governed(r))))
      ]_vars

\* two successive quintic queries inside one bracket, the second strictly closer to we
C7_Witness ==
    /\ Queried /\ last.outcome = "ok" /\ DecayOf(last.routine) = "quintic"
    /\ calls = 2 /\ ~last.first
    /\ attrs[AttrOf(last.routine)] = << <<Num(100), Num(0)>>, <<Num(0), Num(1)>> >>
    /\ Progress = Rat(3, 4)
    /\ Governed(last.routine) = Rat(25, 256)


\* C8: a first call whose params list has fewer than 2 elements or an odd number of
\* middle elements fails on an assert, creates no attribute and changes no weight;
\* the next call of the routine is a first call again and constructs the schedule
\* when its params are accepted.
C8_Rejected ==
    [][\A r \in Routines :
          /\ (last'.routine = r /\ last'.first /\ ~last'.params.isNone
                /\ (Len(last'.params.items) < 2 \/ (Len(last'.params.items) - 2) % 2 = 1))
             => /\ last'.outcome = "AssertionError"
                /\ attrs' = attrs
                /\ AttrOf(r) \notin DOMAIN attrs'
                /\ weights' = weights
                /\ heat_lambda' = heat_lambda
          /\ (last.routine = r /\ last.first /\ last.outcome = "AssertionError"
                /\ last'.routine = r)
             => /\ last'.first
                /\ (~last'.params.isNone /\ Len(last'.params.items) >= 2
                      /\ (Len(last'.params.items) - 2) % 2 = 0)
                   => AttrOf(r) \in DOMAIN attrs'
      ]_vars

C8_Witness ==
    /\ last.routine \in Routines /\ last.first /\ last.params = OddParams
    /\ last.outcome = "AssertionError"
    /\ AttrOf(last.routine) \notin DOMAIN attrs
    /\ Governed(last.routine) \in {Num(7), Num(100)}

\* C9 as stated: construction with params (1.0, 0.5, 2.0, 3.0) is rejected and
\* caches nothing.
C9_AsStated ==
    (last.routine \in Routines /\ last.first /\ last.params = FourParams)
    =>  /\ last.outcome = "AssertionError"
        /\ AttrOf(last.routine) \notin DOMAIN attrs

\* C9, amended: params (1.0, 0.5, 2.0, 3.0) has the even middle (0.5, 2.0): a first
\* call accepts it and caches [(1,0), (2,0.5), (3,1)]; params with an odd middle,
\* such as (1.0, 0.5, 3.0), fail an assert and cache nothing.
C9_EvenMiddle ==
    /\ (last.routine \in Routines /\ last.first /\ last.params = FourParams)
       => /\ last.outcome \notin {"AssertionError", "TypeError"}
          /\ AttrOf(last.routine) \in DOMAIN attrs
          /\ attrs[AttrOf(last.routine)]
               = << <<Num(1), Num(0)>>, <<Num(2), Rat(1, 2)>>, <<Num(3), Num(1)>> >>
    /\ (last.routine \in Routines /\ last.first /\ last.params = OddParams)
       => /\ last.outcome = "AssertionError"
          /\ AttrOf(last.routine) \notin DOMAIN attrs

C9_Witness ==
    /\ Queried /\ last.first /\ last.params = FourParams /\ last.outcome = "ok"
    /\ Len(attrs[AttrOf(last.routine)]) = 3

\* C10 as stated: every query with current_iteration > n_iterations fails in the
\* upper-bracket search and leaves the governed scalar unchanged.
C10_AsStated ==
    [][\A r \in Routines :
          (last'.routine = r /\ AttrOf(r) \in DOMAIN attrs'
              /\ last'.current_iteration > last'.n_iterations)
          => /\ last'.outcome = "ValueError"
             /\ Governed(r)' = Governed(r)
      ]_vars

\* C10, amended: a query fails in the upper-bracket search exactly when its progress
\* exceeds every fraction of the cached list, and the failed call leaves every weight
\* unchanged; that is the case for every current_iteration > n_iterations when no
\* middle fraction of the list exceeds 1.
C10_OutOfRange ==
    [][\A r \in Routines :
          (last'.routine = r /\ AttrOf(r) \in DOMAIN attrs')
          =>  LET list == attrs'[AttrOf(r)]
                  p == Rat(last'.current_iteration, last'.n_iterations)
                  beyond == \A i \in 1..Len(list) : Lt(list[i][2], p)
              IN  /\ beyond <=> last'.outcome = "ValueError"
                  /\ beyond => /\ last'.bracket = <<>>
                               /\ weights' = weights
                               /\ heat_lambda' = heat_lambda
                  /\ (last'.current_iteration > last'.n_iterations
                        /\ \A i \in 1..Len(list) : Le(list[i][2], Num(1)))
                     => beyond
      ]_vars

C10_Witness ==
    /\ Queried /\ ~last.first /\ last.outcome = "ValueError"
    /\ last.current_iteration > last.n_iterations
    /\ Governed(last.routine) \notin {Num(7), Num(100)}

\* C11 as stated: under the kernel "none" a call leaves the governed scalar
\* unmodified and skips the schedule query: it cannot fail, constructs no control
\* points and searches no bracket, whatever params and current_iteration it is given.
C11_AsStated ==
    [][\A r \in Routines :
          (last'.routine = r /\ DecayOf(r) = "none")
          => /\ Governed(r)' = Governed(r)
             /\ last'.outcome = "ok"
             /\ attrs' = attrs
             /\ last'.bracket = <<>>
      ]_vars

\* C11, amended: under the kernel "none" a call changes no weight, but the schedule
\* query is not skipped: a first call validates params (None and malformed lists
\* fail, caching nothing) and caches the control points of an accepted list; every
\* call that gets past that searches the bracket, failing exactly when the
\* progress exceeds every cached fraction and otherwise succeeding with a bracket
\* selected.
C11_None ==
    [][\A r \in Routines :
          (last'.routine = r /\ DecayOf(r) = "none")
          =>  LET params == last'.params
                  short == Len(params.items) < 2
                  odd == (Len(params.items) - 2) % 2 = 1
                  cached == AttrOf(r) \in DOMAIN attrs'
              IN  /\ weights' = weights
                  /\ heat_lambda' = heat_lambda
                  /\ (last'.first /\ params.isNone)
                     => last'.outcome = "TypeError" /\ attrs' = attrs
                  /\ (last'.first /\ ~params.isNone /\ (short \/ odd))
                     => last'.outcome = "AssertionError" /\ attrs' = attrs
                  /\ (last'.first /\ ~params.isNone /\ ~short /\ ~odd)
                     => cached /\ attrs' # attrs
                  /\ cached
                     => LET list == attrs'[AttrOf(r)]
                            p == Rat(last'.current_iteration, last'.n_iterations)
                            beyond == \A i \in 1..Len(list) : Lt(list[i][2], p)
                        IN  /\ beyond => last'.outcome = "ValueError"
                            /\ ~beyond => last'.outcome = "ok" /\ Len(last'.bracket) = 4
      ]_vars

C11_Witness ==
    /\ last.routine \in Routines /\ DecayOf(last.routine) = "none"
    /\ last.first /\ last.params = PaperParams
    /\ AttrOf(last.routine) \in DOMAIN attrs
    /\ last.outcome = "ok" /\ Len(last.bracket) = 4
    /\ Governed(last.routine) \in {Num(7), Num(100)}

C13_Frame ==
    [][\A r \in Routines :
          last'.routine = r
          =>  LET slot == CASE r = "update_boundary_coef" -> 0
                            [] r = "update_eikonal_weight" -> 3
                            [] r = "update_div_weight" -> 4
                            [] r = "update_heat_weight" -> 6
                            [] r = "update_heat_lambda" -> 8
                  others == {AttrOf(o) : o \in Routines \ {r}}
              IN  /\ \A i \in (0..7) \ {slot} : weights'[i] = weights[i]
                  /\ slot # 8 => heat_lambda' = heat_lambda
                  /\ \A a \in others :
                        /\ a \in DOMAIN attrs' <=> a \in DOMAIN attrs
                        /\ a \in DOMAIN attrs => attrs'[a] = attrs[a]
                  /\ DOMAIN attrs' \subseteq DOMAIN attrs \cup {AttrOf(r)}
                  /\ last'.first <=> AttrOf(r) \notin DOMAIN attrs
                  /\ config' = config
      ]_vars

\* update_heat_lambda constructing and annealing after update_div_weight did
C13_Witness ==
    /\ last.routine = "update_heat_lambda" /\ last.first /\ last.outcome = "ok"
    /\ DOMAIN attrs = {"decay_params_list", "heat_lambda_decay_params_list"}
    /\ attrs["decay_params_list"] # attrs["heat_lambda_decay_params_list"]
    /\ weights[4] = Num(100)
    /\ heat_lambda = Num(75)
    /\ \A i \in (0..7) \ {4} : weights[i] = Num(7)

\* C14 as stated: every cached schedule starts at fraction 0, ends at fraction 1,
\* and has non-decreasing fractions, all within [0, 1].
C14_AsStated ==
    \A a \in DOMAIN attrs :
        LET list == attrs[a]
        IN  /\ list[1][2] = Num(0)
            /\ list[Len(list)][2] = Num(1)
            /\ \A i \in 1..Len(list) : Le(Num(0), list[i][2]) /\ Le(list[i][2], Num(1))
            /\ \A i \in 1..(Len(list) - 1) : Le(list[i][2], list[i + 1][2])

\* C14, amended: every cached schedule has at least two control points, the first
\* at fraction 0 and the last at fraction 1; the fractions in between are the
\* middle fractions of params in the order given, with no check of their order
\* or range: every params list of at least two elements with an even middle is
\* cached by the first call.
C14_Endpoints ==
    /\ \A a \in DOMAIN attrs :
          LET list == attrs[a]
          IN  /\ Len(list) >= 2
              /\ list[1][2] = Num(0)
              /\ list[Len(list)][2] = Num(1)
    /\ (last.routine \in Routines /\ last.first /\ ~last.params.isNone
          /\ Len(last.params.items) >= 2 /\ (Len(last.params.items) - 2) % 2 = 0)
       => /\ AttrOf(last.routine) \in DOMAIN attrs
          /\ LET list == attrs[AttrOf(last.routine)]
                 items == last.params.items
             IN  /\ Len(list) = Len(items) \div 2 + 1
                 /\ \A i \in 2..(Len(list) - 1) : list[i][2] = items[2 * (i - 1)]

\* a cached schedule whose middle fraction lies beyond 1, before the last one
C14_Witness ==
    /\ Queried /\ last.first /\ last.params = BeyondParams
    /\ attrs[AttrOf(last.routine)] =
          <<<<Num(100), Num(0)>>, <<Num(50), Rat(3, 2)>>, <<Num(0), Num(1)>>>>
    /\ Lt(attrs[AttrOf(last.routine)][3][2], attrs[AttrOf(last.routine)][2][2])

\* C15 as stated: when two control points share a fraction, the query under the
\* linear or quintic kernel whose selected bracket has s = e evaluates the division
\* by e - s, a division by zero.
C15_AsStated ==
    (/\ Queried /\ DecayOf(last.routine) \in {"linear", "quintic"}
     /\ Len(last.bracket) = 4 /\ last.bracket[2] = last.bracket[4]
     /\ LET list == attrs[AttrOf(last.routine)]
        IN  \E i, j \in 1..Len(list) :
                i # j /\ list[i][2] = last.bracket[2] /\ list[j][2] = last.bracket[2])
    => last.outcome = "ZeroDivisionError"

\* C15, amended: no query divides by zero.  The selected bracket has s = e only when
\* the progress equals that fraction, also when two control points share it, and
\* then the linear and quintic kernels take neither the branch below s nor the
\* interpolating branch s <= progress < e: the call succeeds and the governed
\* scalar is we, the value of the upper bracket.
C15_NoDivision ==
    /\ last.outcome # "ZeroDivisionError"
    /\ (Queried /\ Len(last.bracket) = 4)
       => /\ Le(last.bracket[2], Progress) /\ Le(Progress, last.bracket[4])
          /\ last.bracket[2] = last.bracket[4]
             => /\ Progress = last.bracket[2]
                /\ DecayOf(last.routine) \in {"linear", "quintic"}
                   => /\ last.outcome = "ok"
                      /\ Governed(last.routine) = last.bracket[3]

\* the query at the fraction 1/2 shared by two control points, under linear
C15_Witness ==
    /\ Queried /\ DecayOf(last.routine) = "linear" /\ last.outcome = "ok"
    /\ attrs[AttrOf(last.routine)] =
          <<<<Num(0), Num(0)>>, <<Num(10), Rat(1, 2)>>, <<Num(20), Rat(1, 2)>>,
            <<Num(40), Num(1)>>>>
    /\ last.bracket = <<Num(10), Rat(1, 2), Num(10), Rat(1, 2)>>
    /\ Progress = Rat(1, 2)
    /\ Governed(last.routine) = Num(10)

====
